---- MODULE Spec2Model ----
(***************************************************************************)
(* Model of the expanduser crate (src/src/lib.rs): ExpandUser::expand_user *)
(* and get_user_home, together with the parts of std::path the function    *)
(* relies on (Path::components, Components::as_path, PathBuf::push, path   *)
(* equality) and the two collaborators (dirs_sys::home_dir, libc::getpwnam)*)
(* whose results are nondeterministic inputs.                              *)
(*                                                                         *)
(* A path is a sequence of bytes (integers 0..255).  Option values are     *)
(* sequences of length 0 (None / NULL) or 1 (Some).                        *)
(***************************************************************************)
EXTENDS Integers, Sequences, FiniteSets, TLC

----------------------------------------------------------------------------
(* Bytes *)

\* the string terminator, the path separator and the tilde
NUL == 0
SEP == 47
TILDE == 126

\* "root" and "/root" as byte strings
RootName == <<114, 111, 111, 116>>
RootHome == <<SEP>> \o RootName

\* a two-byte UTF-8 character (U+00E9)
EAcute == <<195, 169>>

----------------------------------------------------------------------------
(* Bounds of the model *)

\* number of tokens an input path is assembled from
MaxTokens == 4

\* the pieces input paths are assembled from
\* ("/", "~", ".", "a", ":", NUL, the byte 0xFF that no UTF-8 text
\* contains, a two-byte UTF-8 character, and "root")
Tokens ==
    { <<SEP>>, <<TILDE>>, <<46>>, <<97>>, <<58>>, <<NUL>>,
      <<255>>, EAcute, RootName }

RECURSIVE Flatten(_)
Flatten(ts) == IF ts = <<>> THEN <<>> ELSE Head(ts) \o Flatten(Tail(ts))

TokenSeqs == UNION { [1..n -> Tokens] : n \in 0..MaxTokens }

Inputs == { Flatten(ts) : ts \in TokenSeqs }

\* values dirs_sys::home_dir() may return
\* (None, "/h", "/h/", "/\xFF", "a", "~a")
HomeRets ==
    { <<>>,
      << <<SEP, 104>> >>,
      << <<SEP, 104, SEP>> >>,
      << <<SEP, 255>> >>,
      << <<97>> >>,
      << <<TILDE, 97>> >> }

\* memory a non-null pw_dir may point to (NUL-terminated C strings)
\* ("/h", "/h/", "/\xFFh", "a", "~", "")
PwDirBufs ==
    { <<SEP, 104, NUL>>,
      <<SEP, 104, SEP, NUL>>,
      <<SEP, 255, 104, NUL>>,
      <<97, NUL>>,
      <<TILDE, NUL>>,
      <<NUL>> }

\* values libc::getpwnam() may return: NULL, or a passwd record whose
\* pw_dir is NULL or points to a C string
PwRets ==
    { <<>>, << [pw_dir |-> <<>>] >> }
        \cup { << [pw_dir |-> <<b>>] >> : b \in PwDirBufs }

----------------------------------------------------------------------------
(* Byte-string helpers *)

Drop(s, n) == SubSeq(s, n + 1, Len(s))
Take(s, n) == SubSeq(s, 1, n)

\* index of the first / last position holding byte b, 0 when there is none
Position(s, b) ==
    IF \E i \in 1..Len(s) : s[i] = b
    THEN CHOOSE i \in 1..Len(s) : s[i] = b /\ \A j \in 1..(i - 1) : s[j] # b
    ELSE 0

RPosition(s, b) ==
    IF \E i \in 1..Len(s) : s[i] = b
    THEN CHOOSE i \in 1..Len(s) : s[i] = b /\ \A j \in (i + 1)..Len(s) : s[j] # b
    ELSE 0

StartsWith(s, p) == Len(s) >= Len(p) /\ Take(s, Len(p)) = p

\* str::from_utf8: whether the bytes are well-formed UTF-8
IsCont(b) == b >= 128 /\ b <= 191

RECURSIVE IsUtf8(_)
IsUtf8(s) ==
    IF s = <<>> THEN TRUE
    ELSE LET b == s[1] IN
         IF b < 128 THEN IsUtf8(Drop(s, 1))
         ELSE IF b >= 194 /\ b <= 223
              THEN Len(s) >= 2 /\ IsCont(s[2]) /\ IsUtf8(Drop(s, 2))
         ELSE IF b >= 224 /\ b <= 239
              THEN /\ Len(s) >= 3
                   /\ IsCont(s[2]) /\ IsCont(s[3])
                   /\ (b = 224 => s[2] >= 160)
                   /\ (b = 237 => s[2] <= 159)
                   /\ IsUtf8(Drop(s, 3))
         ELSE IF b >= 240 /\ b <= 244
              THEN /\ Len(s) >= 4
                   /\ IsCont(s[2]) /\ IsCont(s[3]) /\ IsCont(s[4])
                   /\ (b = 240 => s[2] >= 144)
                   /\ (b = 244 => s[2] <= 143)
                   /\ IsUtf8(Drop(s, 4))
         ELSE FALSE

\* OsStr::to_str: Some(s) when s is valid UTF-8, None otherwise
to_str(s) == IF IsUtf8(s) THEN <<s>> ELSE <<>>

\* CString::new: Err (None) on an interior NUL, else the bytes plus a
\* terminating NUL
CStringNew(s) == IF Position(s, NUL) # 0 THEN <<>> ELSE << s \o <<NUL>> >>

\* CStr::from_ptr(p).to_bytes(): the bytes up to the first NUL
CStrToBytes(buf) == Take(buf, Position(buf, NUL) - 1)

----------------------------------------------------------------------------
(* std::path on Unix: Components, Components::as_path, PathBuf::push *)

RootDir == [kind |-> "RootDir", str |-> <<SEP>>]
CurDir == [kind |-> "CurDir", str |-> <<46>>]
ParentDir == [kind |-> "ParentDir", str |-> <<46, 46>>]
Normal(part) == [kind |-> "Normal", str |-> part]

\* Components::parse_single_component: "" and "." are skipped
parse_single_component(comp) ==
    IF comp = <<>> \/ comp = <<46>> THEN <<>>
    ELSE IF comp = <<46, 46>> THEN <<ParentDir>>
    ELSE <<Normal(comp)>>

\* Components::parse_next_component: the bytes up to the first separator
parse_next_component(path) ==
    LET i == Position(path, SEP)
        comp == IF i = 0 THEN path ELSE Take(path, i - 1)
        extra == IF i = 0 THEN 0 ELSE 1
    IN [size |-> Len(comp) + extra, comp |-> parse_single_component(comp)]

\* Components::include_cur_dir: a leading "." of a path without a root
include_cur_dir(it) ==
    /\ ~it.has_physical_root
    /\ Len(it.path) >= 1
    /\ it.path[1] = 46
    /\ (Len(it.path) >= 2 => it.path[2] = SEP)

\* Components::len_before_body
len_before_body(it) ==
    (IF it.front = "StartDir" /\ it.has_physical_root THEN 1 ELSE 0)
        + (IF it.front = "StartDir" /\ include_cur_dir(it) THEN 1 ELSE 0)

\* Components::parse_next_component_back: the bytes after the last separator
parse_next_component_back(it) ==
    LET start == len_before_body(it)
        body == Drop(it.path, start)
        i == RPosition(body, SEP)
        comp == IF i = 0 THEN body ELSE Drop(body, i)
        extra == IF i = 0 THEN 0 ELSE 1
    IN [size |-> Len(comp) + extra, comp |-> parse_single_component(comp)]

\* Path::components (no prefix on Unix, so iteration starts at StartDir);
\* the back of the iterator is never advanced by expand_user
components(path) ==
    [path |-> path,
     has_physical_root |-> (Len(path) >= 1 /\ path[1] = SEP),
     front |-> "StartDir"]

\* Iterator::next for Components: the component (or None) and the iterator
\* after the call
RECURSIVE ComponentsNext(_)
ComponentsNext(it) ==
    IF it.front = "Done" THEN [comp |-> <<>>, it |-> it]
    ELSE IF it.front = "StartDir"
    THEN IF it.has_physical_root
         THEN [comp |-> <<RootDir>>,
               it |-> [it EXCEPT !.front = "Body", !.path = Drop(@, 1)]]
         ELSE IF include_cur_dir(it)
         THEN [comp |-> <<CurDir>>,
               it |-> [it EXCEPT !.front = "Body", !.path = Drop(@, 1)]]
         ELSE ComponentsNext([it EXCEPT !.front = "Body"])
    ELSE IF it.path # <<>>
    THEN LET p == parse_next_component(it.path)
             rest == [it EXCEPT !.path = Drop(@, p.size)]
         IN IF p.comp # <<>> THEN [comp |-> p.comp, it |-> rest]
            ELSE ComponentsNext(rest)
    ELSE ComponentsNext([it EXCEPT !.front = "Done"])

\* Components::trim_left / trim_right
RECURSIVE trim_left(_)
trim_left(it) ==
    IF it.path = <<>> THEN it
    ELSE LET p == parse_next_component(it.path)
         IN IF p.comp # <<>> THEN it
            ELSE trim_left([it EXCEPT !.path = Drop(@, p.size)])

RECURSIVE trim_right(_)
trim_right(it) ==
    IF Len(it.path) <= len_before_body(it) THEN it
    ELSE LET p == parse_next_component_back(it)
         IN IF p.comp # <<>> THEN it
            ELSE trim_right([it EXCEPT !.path = Take(@, Len(@) - p.size)])

\* Components::as_path: the part of the path that remains to be iterated
as_path(it) ==
    LET l == IF it.front = "Body" THEN trim_left(it) ELSE it
    IN trim_right(l).path

\* PathBuf::push on Unix: an absolute path replaces the buffer, otherwise a
\* separator is added when the buffer does not end with one
Push(buf, path) ==
    LET need_sep == buf # <<>> /\ buf[Len(buf)] # SEP
        is_absolute == Len(path) >= 1 /\ path[1] = SEP
    IN IF is_absolute THEN path
       ELSE IF need_sep THEN buf \o <<SEP>> \o path
       ELSE buf \o path

\* all components of a path, front to back
RECURSIVE Collect(_)
Collect(it) ==
    LET n == ComponentsNext(it)
    IN IF n.comp = <<>> THEN <<>> ELSE <<n.comp[1]>> \o Collect(n.it)

ComponentList(path) == Collect(components(path))

\* PartialEq for Path: equality of the component sequences
PathEq(a, b) == ComponentList(a) = ComponentList(b)

----------------------------------------------------------------------------
(* The crate: ExpandUserError, get_user_home, ExpandUser::expand_user *)

\* Result<PathBuf, ExpandUserError>
Ok(path) == [tag |-> "Ok", path |-> path, err |-> <<>>]
Err(e) == [tag |-> "Err", path |-> <<>>, err |-> <<e>>]

\* ExpandUserError; payload holds the variant's fields (none or one string)
CurrentUserHomeNotFound == [kind |-> "CurrentUserHomeNotFound", payload |-> <<>>]
UserNotFound(user) == [kind |-> "UserNotFound", payload |-> <<user>>]
UserHomeNotFound(user) == [kind |-> "UserHomeNotFound", payload |-> <<user>>]
InvalidTildeExpression(expr) == [kind |-> "InvalidTildeExpression", payload |-> <<expr>>]

\* one invocation of a collaborator, as recorded in the call log
HomeDirCall(ret) == [fn |-> "home_dir", arg |-> <<>>, ret |-> ret]
GetpwnamCall(cstr, ret) == [fn |-> "getpwnam", arg |-> cstr, ret |-> ret]

\* get_user_home(user), where pwRet is what getpwnam returns if it is called
get_user_home(user, pwRet) ==
    LET user_cstr == CStringNew(user)
    IN IF user_cstr = <<>>
       THEN [res |-> Err(InvalidTildeExpression(user)), calls |-> <<>>]
       ELSE LET calls == <<GetpwnamCall(user_cstr[1], pwRet)>>
            IN IF pwRet = <<>>
               THEN [res |-> Err(UserNotFound(user)), calls |-> calls]
               ELSE IF pwRet[1].pw_dir = <<>>
               THEN [res |-> Err(UserHomeNotFound(user)), calls |-> calls]
               ELSE [res |-> Ok(CStrToBytes(pwRet[1].pw_dir[1])), calls |-> calls]

\* the arms of the match on the first component.  Each gives the path buffer
\* after its push, or the error it returns early, and the lookups it made.
\* homeRet and pwRet are what home_dir and getpwnam return if they are called.

\* faulty variant: the tilde itself is pushed after the home directory
CurrentUserArm_KeepsTilde(homeRet) ==
    IF homeRet # <<>>
    THEN [res |-> Ok(Push(Push(<<>>, homeRet[1]), <<TILDE>>)),
          calls |-> <<HomeDirCall(homeRet)>>]
    ELSE [res |-> Err(CurrentUserHomeNotFound),
          calls |-> <<HomeDirCall(homeRet)>>]

\* faulty variant: a missing home directory is taken to be the empty path
CurrentUserArm_DefaultsToEmpty(homeRet) ==
    IF homeRet # <<>>
    THEN [res |-> Ok(Push(<<>>, homeRet[1])),
          calls |-> <<HomeDirCall(homeRet)>>]
    ELSE [res |-> Ok(Push(<<>>, <<>>)),
          calls |-> <<HomeDirCall(homeRet)>>]

\* Some("~") => match dirs_sys::home_dir() { ... }
CurrentUserArm(homeRet) ==
    IF homeRet # <<>>
    THEN [res |-> Ok(Push(<<>>, homeRet[1])),
          calls |-> <<HomeDirCall(homeRet)>>]
    ELSE [res |-> Err(CurrentUserHomeNotFound),
          calls |-> <<HomeDirCall(homeRet)>>]

\* faulty variant: root is looked up in the directory service like any other user
NamedUserArm_NoRootShortcut(prefix, pwRet) ==
    LET assumed_user == Drop(prefix, 1)
        h == get_user_home(assumed_user, pwRet)
    IN IF h.res.tag = "Err" THEN h
       ELSE [res |-> Ok(Push(<<>>, h.res.path)), calls |-> h.calls]

\* Some(prefix) if prefix.starts_with("~") => { ... }
NamedUserArm(prefix, pwRet) ==
    LET assumed_user == Drop(prefix, 1)
    IN IF assumed_user = RootName
       THEN [res |-> Ok(Push(<<>>, RootHome)), calls |-> <<>>]
       ELSE LET h == get_user_home(assumed_user, pwRet)
            IN IF h.res.tag = "Err" THEN h
               ELSE [res |-> Ok(Push(<<>>, h.res.path)), calls |-> h.calls]

\* _ => path.push(part)
PlainArm(part) == [res |-> Ok(Push(<<>>, part)), calls |-> <<>>]

\* faulty variant: a root, "." or ".." first component is not pushed
OtherArm_Dropped(other) == [res |-> Ok(<<>>), calls |-> <<>>]

\* Some(other) => path.push(other)
OtherArm(other) == [res |-> Ok(Push(<<>>, other.str)), calls |-> <<>>]

\* match components.next() { Some(..) => .. }: the arm taken for the first
\* component
FirstComponent(comp, homeRet, pwRet) ==
    IF comp.kind = "Normal"
    THEN LET part == comp.str
             s == to_str(part)
         IN IF s = << <<TILDE>> >> THEN CurrentUserArm(homeRet)
            ELSE IF s # <<>> /\ StartsWith(s[1], <<TILDE>>)
            THEN NamedUserArm(s[1], pwRet)
            ELSE PlainArm(part)
    ELSE OtherArm(comp)

\* faulty variant: the remaining components are not pushed
expand_user_NoRest(self, homeRet, pwRet) ==
    LET first == ComponentsNext(components(self))
    IN IF first.comp = <<>> THEN [res |-> Ok(<<>>), calls |-> <<>>]
       ELSE FirstComponent(first.comp[1], homeRet, pwRet)

\* faulty variant: the second component is expanded like the first
expand_user_ExpandsSecond(self, homeRet, pwRet) ==
    LET first == ComponentsNext(components(self))
        second == ComponentsNext(first.it)
    IN IF first.comp = <<>> THEN [res |-> Ok(<<>>), calls |-> <<>>]
       ELSE LET f == FirstComponent(first.comp[1], homeRet, pwRet)
            IN IF f.res.tag = "Err" THEN f
               ELSE IF second.comp = <<>>
               THEN [res |-> Ok(Push(f.res.path, as_path(first.it))),
                     calls |-> f.calls]
               ELSE LET g == FirstComponent(second.comp[1], homeRet, pwRet)
                    IN IF g.res.tag = "Err"
                       THEN [res |-> g.res, calls |-> f.calls \o g.calls]
                       ELSE [res |-> Ok(Push(Push(f.res.path, g.res.path),
                                             as_path(second.it))),
                             calls |-> f.calls \o g.calls]

\* ExpandUser::expand_user(self)
expand_user(self, homeRet, pwRet) ==
    LET first == ComponentsNext(components(self))
    IN IF first.comp = <<>> THEN [res |-> Ok(<<>>), calls |-> <<>>]
       ELSE LET f == FirstComponent(first.comp[1], homeRet, pwRet)
            IN IF f.res.tag = "Err" THEN f
               ELSE [res |-> Ok(Push(f.res.path, as_path(first.it))),
                     calls |-> f.calls]

----------------------------------------------------------------------------
(* State machine: a caller applies expand_user to a path, and may apply it *)
(* once more to the path it got back                                        *)

VARIABLES input, pc, result, calls, prev

vars == <<input, pc, result, calls, prev>>

NoResult == [tag |-> "None", path |-> <<>>, err |-> <<>>]

Init ==
    /\ input \in Inputs
    /\ pc = "start"
    /\ result = NoResult
    /\ calls = <<>>
    /\ prev = <<>>

\* path.expand_user()
ExpandUser ==
    /\ pc = "start"
    /\ \E homeRet \in HomeRets, pwRet \in PwRets :
          LET r == expand_user(input, homeRet, pwRet)
          IN /\ result' = r.res
             /\ calls' = r.calls
    /\ pc' = "done"
    /\ UNCHANGED <<input, prev>>

\* path.expand_user()?.expand_user()
ExpandAgain ==
    /\ pc = "done"
    /\ result.tag = "Ok"
    /\ \E homeRet \in HomeRets, pwRet \in PwRets :
          LET r == expand_user(result.path, homeRet, pwRet)
          IN /\ result' = r.res
             /\ calls' = r.calls
    /\ input' = result.path
    /\ prev' = <<[input |-> input, result |-> result, calls |-> calls]>>
    /\ pc' = "redone"

Next == ExpandUser \/ ExpandAgain

Spec == Init /\ [][Next]_vars

----------------------------------------------------------------------------
(* Vocabulary of the properties *)

\* the components of the path expand_user was last applied to
InComps == ComponentList(input)

\* the components after the first
RestComps == IF InComps = <<>> THEN <<>> ELSE Tail(InComps)

\* the first component is the normal component with exactly these bytes
FirstIs(str) == InComps # <<>> /\ InComps[1] = [kind |-> "Normal", str |-> str]

\* the first component is a normal component starting with a tilde
FirstIsTilde ==
    /\ InComps # <<>>
    /\ InComps[1].kind = "Normal"
    /\ InComps[1].str[1] = 126

\* the first component is ~name with a non-empty name other than root
FirstIsNamed ==
    /\ FirstIsTilde
    /\ Len(InComps[1].str) >= 2
    /\ InComps[1].str # <<126, 114, 111, 111, 116>>

\* the name of a ~name first component
Name == Drop(InComps[1].str, 1)

HasNul(s) == \E i \in 1..Len(s) : s[i] = 0

IsPrefixOf(p, s) == Len(p) <= Len(s) /\ \A i \in 1..Len(p) : s[i] = p[i]

\* the call made exactly one lookup, the current-user-home lookup
OnlyHomeDirCalled == Len(calls) = 1 /\ calls[1].fn = "home_dir"

\* the call made exactly one lookup, the directory-service lookup, for name
OnlyGetpwnamCalled(name) ==
    /\ Len(calls) = 1
    /\ calls[1].fn = "getpwnam"
    /\ calls[1].arg = name \o <<0>>

\* the directory-service lookup returned a record with a home directory
PwFound(c) == c.fn = "getpwnam" /\ c.ret # <<>> /\ c.ret[1].pw_dir # <<>>

\* the bytes of that home directory: the buffer without its terminator
PwHome(c) == LET buf == c.ret[1].pw_dir[1] IN SubSeq(buf, 1, Len(buf) - 1)

\* the result is Ok(prefix followed by the input's remaining components)
OkWithPrefix(prefix) ==
    /\ result.tag = "Ok"
    /\ ComponentList(result.path) = ComponentList(prefix) \o RestComps

\* the result is the given error
FailsWith(kind, payload) ==
    /\ result.tag = "Err"
    /\ result.err[1].kind = kind
    /\ result.err[1].payload = payload

----------------------------------------------------------------------------
(* Properties *)

\* C1: for an input that is empty or whose first component does not start
\* with a tilde, expand_user returns Ok with a path equal to the input (same
\* components) and makes no lookup at all.
C1_IdentityOnNonTilde ==
    (pc = "done" /\ ~FirstIsTilde) =>
        /\ result.tag = "Ok"
        /\ ComponentList(result.path) = InComps
        /\ calls = <<>>

C1_Witness ==
    /\ pc = "done"
    /\ ~FirstIsTilde
    /\ Len(InComps) >= 2
    /\ InComps[1].kind = "Normal"
    /\ result.tag = "Ok"

\* C2: for an input whose first component is exactly ~, the only lookup is
\* the current-user-home lookup, and when it returns a path H the result is
\* Ok(H followed by the remaining components); with no remaining component
\* (~ and ~/) the result equals H.
C2_BareTildeExpandsToHome ==
    (pc = "done" /\ FirstIs(<<126>>)) =>
        /\ OnlyHomeDirCalled
        /\ calls[1].ret # <<>> =>
              /\ OkWithPrefix(calls[1].ret[1])
              /\ RestComps = <<>> => PathEq(result.path, calls[1].ret[1])

C2_Witness ==
    /\ pc = "done"
    /\ FirstIs(<<126>>)
    /\ Len(InComps) >= 2
    /\ OnlyHomeDirCalled
    /\ calls[1].ret = << <<47, 104>> >>
    /\ result.tag = "Ok"

\* C3: for an input whose first component is exactly ~, when the
\* current-user-home lookup returns nothing the result is the error
\* CurrentUserHomeNotFound without payload, no path is returned and the
\* directory service is not consulted.
C3_NoHomeIsError ==
    (pc = "done" /\ FirstIs(<<126>>) /\ calls # <<>> /\ calls[1].ret = <<>>) =>
        /\ FailsWith("CurrentUserHomeNotFound", <<>>)
        /\ result.path = <<>>
        /\ \A i \in 1..Len(calls) : calls[i].fn # "getpwnam"

C3_Witness ==
    /\ pc = "done"
    /\ FirstIs(<<126>>)
    /\ Len(InComps) >= 2
    /\ OnlyHomeDirCalled
    /\ calls[1].ret = <<>>
    /\ result.tag = "Err"

\* C4: for an input whose first component is exactly ~root the result is
\* Ok(/root followed by the remaining components); the call never fails and
\* makes no lookup, so no state of the directory service can change it.
C4_RootShortcut ==
    (pc = "done" /\ FirstIs(<<126, 114, 111, 111, 116>>)) =>
        /\ OkWithPrefix(<<47, 114, 111, 111, 116>>)
        /\ calls = <<>>

C4_Witness ==
    /\ pc = "done"
    /\ FirstIs(<<126, 114, 111, 111, 116>>)
    /\ Len(InComps) >= 2
    /\ result.tag = "Ok"

\* C5: for an input whose first component is ~name (name non-empty, not
\* root, without null bytes) the directory service is looked up exactly once
\* with name, and when it returns a record with home directory H the result
\* is Ok(H followed by the remaining components) and starts with the bytes
\* of H.
C5_NamedUserLookup ==
    (pc = "done" /\ FirstIsNamed /\ ~HasNul(Name)) =>
        /\ OnlyGetpwnamCalled(Name)
        /\ PwFound(calls[1]) =>
              /\ OkWithPrefix(PwHome(calls[1]))
              /\ IsPrefixOf(PwHome(calls[1]), result.path)

\* C5 restricted to names that are valid UTF-8
C5_NamedUserLookupUtf8 ==
    (pc = "done" /\ FirstIsNamed /\ ~HasNul(Name) /\ IsUtf8(Name)) =>
        /\ OnlyGetpwnamCalled(Name)
        /\ PwFound(calls[1]) =>
              /\ OkWithPrefix(PwHome(calls[1]))
              /\ IsPrefixOf(PwHome(calls[1]), result.path)

\* C6: for a named-user request ~name (name not root): a null byte in name
\* gives InvalidTildeExpression carrying name and no lookup; otherwise a
\* lookup returning no record gives UserNotFound carrying name, and a record
\* without home directory gives UserHomeNotFound carrying name;
\* InvalidTildeExpression is returned for no other name.
C6_ErrorOrder ==
    (pc = "done" /\ FirstIsNamed) =>
        /\ HasNul(Name) =>
              (FailsWith("InvalidTildeExpression", <<Name>>) /\ calls = <<>>)
        /\ (~HasNul(Name) /\ calls # <<>> /\ calls[1].ret = <<>>) =>
              FailsWith("UserNotFound", <<Name>>)
        /\ (~HasNul(Name) /\ calls # <<>> /\ calls[1].ret # <<>>
                /\ calls[1].ret[1].pw_dir = <<>>) =>
              FailsWith("UserHomeNotFound", <<Name>>)
        /\ (result.tag = "Err" /\ result.err[1].kind = "InvalidTildeExpression")
              => HasNul(Name)

\* C6 restricted to names that are valid UTF-8
C6_ErrorOrderUtf8 ==
    (pc = "done" /\ FirstIsNamed /\ IsUtf8(Name)) =>
        /\ HasNul(Name) =>
              (FailsWith("InvalidTildeExpression", <<Name>>) /\ calls = <<>>)
        /\ ~HasNul(Name) => OnlyGetpwnamCalled(Name)
        /\ (~HasNul(Name) /\ calls[1].ret = <<>>) =>
              FailsWith("UserNotFound", <<Name>>)
        /\ (~HasNul(Name) /\ calls[1].ret # <<>>
                /\ calls[1].ret[1].pw_dir = <<>>) =>
              FailsWith("UserHomeNotFound", <<Name>>)

\* C7: whenever expand_user succeeds, the output is the resolved prefix (or
\* the unchanged first component) followed by exactly the input's components
\* after the first, byte for byte, also when one of them is ~ or ~user; at
\* most one lookup is made, and it is the one for the first component.
C7_OnlyFirstComponentExpanded ==
    (pc = "done" /\ result.tag = "Ok" /\ InComps # <<>>) =>
        /\ Len(calls) <= 1
        /\ calls = <<>> =>
              \/ OkWithPrefix(InComps[1].str)
              \/ FirstIs(<<126, 114, 111, 111, 116>>)
                    /\ OkWithPrefix(<<47, 114, 111, 111, 116>>)
        /\ (calls # <<>> /\ calls[1].fn = "home_dir") =>
              /\ FirstIs(<<126>>)
              /\ OkWithPrefix(calls[1].ret[1])
        /\ (calls # <<>> /\ calls[1].fn = "getpwnam") =>
              /\ FirstIsNamed
              /\ OnlyGetpwnamCalled(Name)
              /\ OkWithPrefix(PwHome(calls[1]))

C7_Witness ==
    /\ pc = "done"
    /\ result.tag = "Ok"
    /\ calls # <<>>
    /\ Len(InComps) >= 2
    /\ InComps[2].kind = "Normal"
    /\ InComps[2].str[1] = 126
    /\ ComponentList(result.path)[Len(ComponentList(result.path))] = InComps[2]

\* C8: when the first component is not tilde-prefixed the output is
\* byte-identical to the input as a string, separators included.
C8_ByteIdentity ==
    (pc = "done" /\ ~FirstIsTilde) =>
        /\ result.tag = "Ok"
        /\ result.path = input

\* C9: a normal first component that starts with ~ and has at least one
\* further byte (valid UTF-8 or not) is resolved by the root shortcut or by
\* a directory-service lookup, or the call fails; it is never copied to the
\* output without a lookup.
C9_TildeNameAlwaysResolved ==
    (pc = "done" /\ FirstIsTilde /\ Len(InComps[1].str) >= 2) =>
        \/ result.tag = "Err"
        \/ FirstIs(<<126, 114, 111, 111, 116>>)
        \/ OnlyGetpwnamCalled(Name)

\* C9 restricted to first components that are valid UTF-8
C9_TildeNameAlwaysResolvedUtf8 ==
    (pc = "done" /\ FirstIsTilde /\ Len(InComps[1].str) >= 2
        /\ IsUtf8(InComps[1].str)) =>
        \/ result.tag = "Err"
        \/ FirstIs(<<126, 114, 111, 111, 116>>)
        \/ OnlyGetpwnamCalled(Name)

\* the home directories the lookups of the first call returned
HomesReturned(cs) ==
    { cs[i].ret[1] : i \in { j \in 1..Len(cs) : cs[j].fn = "home_dir" /\ cs[j].ret # <<>> } }
        \cup { PwHome(cs[i]) : i \in { j \in 1..Len(cs) : PwFound(cs[j]) } }

IsAbsolute(path) == Len(path) >= 1 /\ path[1] = 47

\* C10: when every home directory the lookups returned is absolute, applying
\* expand_user to a path it returned succeeds, gives an equal path and makes
\* no lookup.
C10_IdempotentOnResults ==
    (pc = "redone" /\ \A h \in HomesReturned(prev[1].calls) : IsAbsolute(h)) =>
        /\ result.tag = "Ok"
        /\ PathEq(result.path, prev[1].result.path)
        /\ calls = <<>>

C10_Witness ==
    /\ pc = "redone"
    /\ prev[1].calls # <<>>
    /\ HomesReturned(prev[1].calls) # {}
    /\ \A h \in HomesReturned(prev[1].calls) : IsAbsolute(h)
    /\ Len(ComponentList(input)) >= 3
    /\ result.tag = "Ok"

====
